---------------------------- MODULE Spec2Model ----------------------------
(***************************************************************************)
(* A model of gmpy2's divmod (src/src/gmpy2_divmod.c): the per-layer       *)
(* algorithms GMPy_Integer_DivMod, GMPy_Rational_DivMod, GMPy_Real_DivMod  *)
(* and GMPy_Complex_DivMod, the dispatchers GMPy_Number_DivMod and         *)
(* GMPy_mpz/mpq/mpfr/mpc_divmod_fast, and context.divmod                   *)
(* (GMPy_Context_DivMod).                                                  *)
(*                                                                         *)
(* A call is one step: it reads the operands and the working context and   *)
(* leaves its outcome in `last`; the caller's taking of the outcome        *)
(* (Consume) is the next step.  Machine integers, the reals' precision and *)
(* exponent range are scaled down; their arithmetic is computed the way    *)
(* GMP and MPFR compute it.                                                *)
(***************************************************************************)
EXTENDS Integers, Sequences, FiniteSets, TLC

VARIABLES ctx,     \* the context object a caller binds context.divmod to
          cur,     \* the process-wide current context
          last,    \* the outcome of the call that returned last
          pc       \* "idle": no call outstanding; "returned": `last` is fresh

vars == <<ctx, cur, last, pc>>

(***************************************************************************)
(* Bounds of the model.                                                    *)
(***************************************************************************)
WordBits == 4      \* width of mpir_si / unsigned long, scaled down from 64
MaxInt == 9        \* integer operands range over -MaxInt..MaxInt
MaxNum == 7        \* numerators of rational operands: -MaxNum..MaxNum
MaxDen == 3        \* denominators of rational operands: 1..MaxDen

Abs(n) == IF n < 0 THEN -n ELSE n
Sgn(n) == IF n < 0 THEN -1 ELSE IF n > 0 THEN 1 ELSE 0

RECURSIVE Pow2(_)
Pow2(k) == IF k <= 0 THEN 1 ELSE 2 * Pow2(k - 1)

RECURSIVE GCD(_, _)
GCD(a, b) == IF b = 0 THEN a ELSE GCD(b, a % b)

(***************************************************************************)
(* Operands and results.  Every value is a record of one shape:            *)
(*   t  the object's type ("mpz", "int", "mpq", "Fraction", "mpfr",        *)
(*      "float", "mpc", "complex", "str"; "NULL" for no object)            *)
(*   k  "num" for an exact number n/d; for a real "fin", "zero", "inf" or  *)
(*      "nan"; "none" where the value plays no part                        *)
(*   s  the sign bit of a real (1 or -1), 0 otherwise                      *)
(*   n  the numerator of an exact number; the magnitude of a finite real   *)
(*      in units of the smallest step of the real format                   *)
(*   d  the denominator of an exact number, 1 otherwise                    *)
(***************************************************************************)
Val(t, k, s, n, d) == [t |-> t, k |-> k, s |-> s, n |-> n, d |-> d]
NULL == Val("NULL", "none", 0, 0, 1)

Mpz(n) == Val("mpz", "num", 0, n, 1)
PyInt(n) == Val("int", "num", 0, n, 1)
Mpq(n, d) == Val("mpq", "num", 0, n, d)
Fraction(n, d) == Val("Fraction", "num", 0, n, d)

Objs == {"result", "quo", "rem", "tempx", "tempy"}
NoRel == [o \in Objs |-> 0]

(***************************************************************************)
(* Context flags and traps.                                                *)
(***************************************************************************)
Flags == {"underflow", "overflow", "inexact", "invalid", "divzero"}

(***************************************************************************)
(* Machine integers.                                                       *)
(***************************************************************************)
SIMax == Pow2(WordBits - 1) - 1
SIMin == -Pow2(WordBits - 1)

\* PyLong_AsSIAndOverflow: the value when it fits mpir_si, else -1 and overflow.
PyLong_AsSIAndOverflow(n) ==
    IF n > SIMax THEN [si |-> -1, overflow |-> 1]
    ELSE IF n < SIMin THEN [si |-> -1, overflow |-> -1]
    ELSE [si |-> n, overflow |-> 0]

\* -temp_si evaluated in mpir_si (line 94).  For the most negative value the
\* negation overflows; extension modules are compiled with the interpreter's
\* flags, which make signed overflow wrap (-fwrapv), so the outcome is the
\* two's complement negation.
NegSI(s) ==
    LET m == (-s) % Pow2(WordBits)
    IN  IF m > SIMax THEN m - Pow2(WordBits) ELSE m

\* The conversion of an mpir_si argument to the unsigned long parameter.
ToUI(s) == s % Pow2(WordBits)

(***************************************************************************)
(* GMP's integer divisions, computed as GMP does: the truncated quotient   *)
(* of the magnitudes, then the adjustment toward -infinity (fdiv) or       *)
(* +infinity (cdiv).  z records a call with a zero divisor.                *)
(***************************************************************************)
TruncQ(n, d) == Sgn(n) * Sgn(d) * (Abs(n) \div Abs(d))

QR(q, r, z) == [q |-> q, r |-> r, z |-> z]

mpz_fdiv_qr(n, d) ==
    IF d = 0 THEN QR(0, 0, TRUE)
    ELSE LET q == TruncQ(n, d)
             r == n - q * d
         IN  IF r # 0 /\ Sgn(r) # Sgn(d) THEN QR(q - 1, r + d, FALSE)
             ELSE QR(q, r, FALSE)

mpz_fdiv_qr_ui(n, ui) == mpz_fdiv_qr(n, ui)

mpz_cdiv_qr_ui(n, ui) ==
    IF ui = 0 THEN QR(0, 0, TRUE)
    ELSE LET q == TruncQ(n, ui)
             r == n - q * ui
         IN  IF r > 0 THEN QR(q + 1, r - ui, FALSE) ELSE QR(q, r, FALSE)

mpz_fdiv_q(n, d) == mpz_fdiv_qr(n, d).q

(***************************************************************************)
(* GMP's rationals: pairs <<numerator, denominator>> kept canonical.       *)
(***************************************************************************)
mpq_canonicalize(n, d) ==
    LET g == GCD(Abs(n), Abs(d))
    IN  IF d < 0 THEN <<-(n \div g), (-d) \div g>> ELSE <<n \div g, d \div g>>

mpq_div(a, b) == mpq_canonicalize(a[1] * b[2], a[2] * b[1])
mpq_mul(a, b) == mpq_canonicalize(a[1] * b[1], a[2] * b[2])
mpq_sub(a, b) == mpq_canonicalize(a[1] * b[2] - b[1] * a[2], a[2] * b[2])
mpq_set_z(z) == <<z, 1>>

(***************************************************************************)
(* The outcome of a call.                                                  *)
(*   res    "pair", "error" (NULL with an exception set), "notimpl"        *)
(*          (Py_NotImplemented), "crash" (a division primitive was handed  *)
(*          a zero divisor)                                                *)
(*   err    the exception                                                  *)
(*   algo   the per-layer algorithm that ran, "none" if none               *)
(*   alloc  the objects the call allocated; rel: how often each was        *)
(*          released; owned: those stored into the returned pair           *)
(*   flags  the working context's flags when the call returns              *)
(*   raised the MPFR flags raised by the computation                       *)
(***************************************************************************)
Out(res, err, quo, rem, algo, zdiv, alloc, rel, owned, flags, raised) ==
    [res |-> res, err |-> err, quo |-> quo, rem |-> rem, algo |-> algo,
     zdiv |-> zdiv, alloc |-> alloc, rel |-> rel, owned |-> owned,
     flags |-> flags, raised |-> raised]

Release(S) == [o \in Objs |-> IF o \in S THEN 1 ELSE 0]

\* result, rem, quo are allocated, then tested together; `fail` names the
\* allocation that returned NULL.
Allocated(fail) == {"result", "rem", "quo"} \ {fail}

AllocFailure(algo, fail, c) ==
    Out("error", "MemoryError", NULL, NULL, algo, FALSE,
        Allocated(fail), Release(Allocated(fail)), {}, c.flags, {})

(***************************************************************************)
(* Type tests.                                                             *)
(***************************************************************************)
CHECK_MPZANY(x) == x.t = "mpz"
PyIntOrLong_Check(x) == x.t = "int"
IS_INTEGER(x) == x.t \in {"mpz", "int"}
IS_RATIONAL(x) == IS_INTEGER(x) \/ x.t \in {"mpq", "Fraction"}
IS_REAL(x) == IS_RATIONAL(x) \/ x.t \in {"mpfr", "float"}
IS_COMPLEX(x) == IS_REAL(x) \/ x.t \in {"mpc", "complex"}

(***************************************************************************)
(* GMPy_Integer_DivMod.                                                    *)
(***************************************************************************)
IntPair(qr, c, temps) ==
    IF qr.z
    THEN Out("crash", "none", NULL, NULL, "Integer", TRUE,
             {"result", "rem", "quo"} \cup temps, NoRel, {}, c.flags, {})
    ELSE Out("pair", "none", Mpz(qr.q), Mpz(qr.r), "Integer", FALSE,
             {"result", "rem", "quo"} \cup temps, Release(temps),
             {"quo", "rem"}, c.flags, {})

IntZeroError(c, temps) ==
    Out("error", "ZeroDivisionError", NULL, NULL, "Integer", FALSE,
        {"result", "rem", "quo"} \cup temps,
        Release({"result", "rem", "quo"} \cup temps), {}, c.flags, {})

\* the quotient of the ceiling division negated (line 95)
NegQuo(qr) == QR(-qr.q, qr.r, qr.z)

\* the magnitude divided with floor division: a wrong variant
MpzLongConvertedFloor(x, a, y, c) ==
    IF a.overflow # 0 THEN IntPair(mpz_fdiv_qr(x.n, y.n), c, {})
    ELSE IF a.si > 0 THEN IntPair(mpz_fdiv_qr_ui(x.n, ToUI(a.si)), c, {})
    ELSE IF a.si = 0 THEN IntZeroError(c, {})
    ELSE IntPair(NegQuo(mpz_fdiv_qr_ui(x.n, ToUI(NegSI(a.si)))), c, {})

\* the zero test of line 86 left out: a wrong variant
MpzLongConvertedNoZeroTest(x, a, y, c) ==
    IF a.overflow # 0 THEN IntPair(mpz_fdiv_qr(x.n, y.n), c, {})
    ELSE IF a.si > 0 THEN IntPair(mpz_fdiv_qr_ui(x.n, ToUI(a.si)), c, {})
    ELSE IntPair(NegQuo(mpz_cdiv_qr_ui(x.n, ToUI(NegSI(a.si)))), c, {})

\* lines 77-99, a being y as a machine integer
MpzLongConverted(x, a, y, c) ==
    IF a.overflow # 0 THEN IntPair(mpz_fdiv_qr(x.n, y.n), c, {})
    ELSE IF a.si > 0 THEN IntPair(mpz_fdiv_qr_ui(x.n, ToUI(a.si)), c, {})
    ELSE IF a.si = 0 THEN IntZeroError(c, {})
    ELSE IntPair(NegQuo(mpz_cdiv_qr_ui(x.n, ToUI(NegSI(a.si)))), c, {})

\* x is an mpz and y a host integer (lines 75-100).
IntegerMpzLong(x, y, c) ==
    MpzLongConverted(x, PyLong_AsSIAndOverflow(y.n), y, c)

\* x and y are both mpz (lines 101-113).
IntegerMpzMpz(x, y, c) ==
    IF Sgn(y.n) = 0 THEN IntZeroError(c, {})
    ELSE IntPair(mpz_fdiv_qr(x.n, y.n), c, {})

\* y is an mpz and x a host integer (lines 116-131).
IntegerLongMpz(x, y, c) ==
    IF Sgn(y.n) = 0 THEN IntZeroError(c, {})
    ELSE IntPair(mpz_fdiv_qr(x.n, y.n), c, {})

\* GMPy_MPZ_From_Integer_Temp: the integer's value as an mpz.
GMPy_MPZ_From_Integer_Temp(x) == Mpz(x.n)

\* both are Integers of any kind (lines 133-160); `fail` may name the
\* conversion that returned NULL.
IntegerGeneric(x, y, c, fail) ==
    IF fail \in {"tempx", "tempy"}
    THEN Out("error", "SystemError", NULL, NULL, "Integer", FALSE,
             {"result", "rem", "quo", "tempx", "tempy"} \ {fail},
             Release({"result", "rem", "quo", "tempx", "tempy"} \ {fail}),
             {}, c.flags, {})
    ELSE LET tempx == GMPy_MPZ_From_Integer_Temp(x)
             tempy == GMPy_MPZ_From_Integer_Temp(y)
         IN  IF Sgn(tempy.n) = 0 THEN IntZeroError(c, {"tempx", "tempy"})
             ELSE IntPair(mpz_fdiv_qr(tempx.n, tempy.n), c, {"tempx", "tempy"})

\* the final return (lines 162-163): only the pair container is released.
NotImplementedReturn(algo, c) ==
    Out("notimpl", "none", NULL, NULL, algo, FALSE,
        {"result", "rem", "quo"}, Release({"result"}), {}, c.flags, {})

GMPy_Integer_DivMod(x, y, c, fail) ==
    IF fail \in {"result", "rem", "quo"} THEN AllocFailure("Integer", fail, c)
    ELSE IF CHECK_MPZANY(x) /\ PyIntOrLong_Check(y) THEN IntegerMpzLong(x, y, c)
    ELSE IF CHECK_MPZANY(x) /\ CHECK_MPZANY(y) THEN IntegerMpzMpz(x, y, c)
    ELSE IF CHECK_MPZANY(y) /\ PyIntOrLong_Check(x) THEN IntegerLongMpz(x, y, c)
    ELSE IF IS_INTEGER(x) /\ IS_INTEGER(y) THEN IntegerGeneric(x, y, c, fail)
    ELSE NotImplementedReturn("Integer", c)

(***************************************************************************)
(* GMPy_Rational_DivMod.                                                   *)
(***************************************************************************)
\* GMPy_MPQ_From_Number_Temp: the number's value as a canonical mpq.
GMPy_MPQ_From_Number_Temp(x) == mpq_canonicalize(x.n, x.d)

RatTemps == {"result", "rem", "quo", "tempx", "tempy"}

\* lines 215-225: the exact quotient, its floor, then x - quo * y.
RationalCompute(tempx, tempy, c) ==
    IF tempy[1] = 0
    THEN Out("crash", "none", NULL, NULL, "Rational", TRUE,
             RatTemps, NoRel, {}, c.flags, {})
    ELSE LET rem1 == mpq_div(tempx, tempy)
             quo == mpz_fdiv_q(rem1[1], rem1[2])
             rem2 == mpq_set_z(quo)
             rem3 == mpq_mul(rem2, tempy)
             rem == mpq_sub(tempx, rem3)
         IN  Out("pair", "none", Mpz(quo), Mpq(rem[1], rem[2]), "Rational",
                 FALSE, RatTemps, Release({"tempx", "tempy"}),
                 {"quo", "rem"}, c.flags, {})

\* lines 204-226.
RationalBody(x, y, c, fail) ==
    IF fail \in {"tempx", "tempy"}
    THEN Out("error", "SystemError", NULL, NULL, "Rational", FALSE,
             RatTemps \ {fail}, Release(RatTemps \ {fail}), {}, c.flags, {})
    ELSE LET tempx == GMPy_MPQ_From_Number_Temp(x)
             tempy == GMPy_MPQ_From_Number_Temp(y)
         IN  IF Sgn(tempy[1]) = 0
             THEN Out("error", "ZeroDivisionError", NULL, NULL, "Rational",
                      FALSE, RatTemps, Release(RatTemps), {}, c.flags, {})
             ELSE RationalCompute(tempx, tempy, c)

GMPy_Rational_DivMod(x, y, c, fail) ==
    IF fail \in {"result", "rem", "quo"} THEN AllocFailure("Rational", fail, c)
    ELSE IF IS_RATIONAL(x) /\ IS_RATIONAL(y) THEN RationalBody(x, y, c, fail)
    ELSE NotImplementedReturn("Rational", c)

(***************************************************************************)
(* MPFR's reals, scaled down: Prec bits of precision and ExpSpan + 1       *)
(* binades.  A finite nonzero real is s * n units with                     *)
(* n = m * 2^j, 2^(Prec-1) <= m < 2^Prec, 0 <= j <= ExpSpan; the unit is   *)
(* chosen so that 1.0 is One units and the least positive real is MinMag.  *)
(* Only the underflow, overflow and inexact flags of MPFR are tracked.     *)
(***************************************************************************)
Prec == 2
ExpSpan == 2

One == Pow2(Prec)
MinMag == Pow2(Prec - 1)
MaxMag == (Pow2(Prec) - 1) * Pow2(ExpSpan)
Mags == {m * Pow2(j) : m \in Pow2(Prec - 1)..(Pow2(Prec) - 1), j \in 0..ExpSpan}

RoundModes == {"RNDN", "RNDZ", "RNDU", "RNDD"}

Fin(s, n) == Val("mpfr", "fin", s, n, 1)
Zero(s) == Val("mpfr", "zero", s, 0, 1)
Inf(s) == Val("mpfr", "inf", s, 0, 1)
NaN == Val("mpfr", "nan", 1, 0, 1)

mpfr_zero_p(v) == v.k = "zero"
mpfr_nan_p(v) == v.k = "nan"
mpfr_inf_p(v) == v.k = "inf"
mpfr_sgn(v) == IF v.k \in {"zero", "nan"} THEN 0 ELSE v.s
mpfr_signbit(v) == v.s < 0

\* what a real primitive leaves: the value, the flags it raised, its ternary
FR(v, fl, rc) == [v |-> v, fl |-> fl, rc |-> rc]

\* <<A, D, e>> with 2^(Prec-1) <= A/D < 2^Prec and A/D * 2^e the given ratio
RECURSIVE Normalize(_, _, _)
Normalize(A, D, e) ==
    IF A >= Pow2(Prec) * D THEN Normalize(A, 2 * D, e + 1)
    ELSE IF A < Pow2(Prec - 1) * D THEN Normalize(2 * A, D, e - 1)
    ELSE <<A, D, e>>

\* whether rounding is away from zero for a value of sign s
Away(rnd, s) == (rnd = "RNDU" /\ s > 0) \/ (rnd = "RNDD" /\ s < 0)

\* the mantissa m0 with remainder r0 of d rounded up in magnitude?
RoundsUp(m0, r0, d, rnd, s) ==
    r0 # 0 /\ (Away(rnd, s) \/ (rnd = "RNDN" /\
               (2 * r0 > d \/ (2 * r0 = d /\ m0 % 2 = 1))))

\* the rounded mantissa m1 at exponent e0 placed in the exponent range:
\* overflow above it, underflow below it (N/D is the exact value)
RoundRange(m1, e0, exact, up, N, D, rnd, s) ==
    IF (IF m1 = Pow2(Prec) THEN e0 + 1 ELSE e0) > ExpSpan
    THEN IF Away(rnd, s) \/ rnd = "RNDN"
         THEN FR(Inf(s), {"overflow", "inexact"}, s)
         ELSE FR(Fin(s, MaxMag), {"overflow", "inexact"}, -s)
    ELSE IF (IF m1 = Pow2(Prec) THEN e0 + 1 ELSE e0) < 0
    THEN IF Away(rnd, s) \/ (rnd = "RNDN" /\ 2 * Abs(N) > MinMag * D)
         THEN FR(Fin(s, MinMag), {"underflow", "inexact"}, s)
         ELSE FR(Zero(s), {"underflow", "inexact"}, -s)
    ELSE FR(Fin(s, m1 * Pow2(e0)), IF exact THEN {} ELSE {"inexact"},
            IF exact THEN 0 ELSE IF up THEN s ELSE -s)

RoundMantissa(m0, r0, nz, N, D, rnd, s, up) ==
    RoundRange(IF up THEN m0 + 1 ELSE m0, nz[3], r0 = 0, up, N, D, rnd, s)

RoundNormalized(nz, m0, N, D, rnd, s) ==
    RoundMantissa(m0, nz[1] - m0 * nz[2], nz, N, D, rnd, s,
                  RoundsUp(m0, nz[1] - m0 * nz[2], nz[2], rnd, s))

RoundNonZero(nz, N, D, rnd) ==
    RoundNormalized(nz, nz[1] \div nz[2], N, D, rnd, Sgn(N))

\* The rational N/D units (D > 0) rounded to the format under rnd, with
\* MPFR's overflow and underflow; zs is the sign of an exact zero.
RoundQ(N, D, rnd, zs) ==
    IF N = 0 THEN FR(Zero(zs), {}, 0)
    ELSE RoundNonZero(Normalize(Abs(N), D, 0), N, D, rnd)

mpfr_set_nan == FR(NaN, {}, 0)
mpfr_set_zero(sign) == FR(Zero(IF sign < 0 THEN -1 ELSE 1), {}, 0)
mpfr_set_inf(sign) == FR(Inf(IF sign < 0 THEN -1 ELSE 1), {}, 0)
mpfr_set_si(i, rnd) == RoundQ(i * One, 1, rnd, 1)

\* mpfr_set: op rounded to the destination's precision, which is op's own.
mpfr_set(op, rnd) ==
    IF op.k = "fin" THEN RoundQ(op.s * op.n, 1, rnd, 1)
    ELSE FR(Val("mpfr", op.k, op.s, op.n, 1), {}, 0)

\* mpfr_div: a / b rounded under rnd.
mpfr_div(a, b, rnd) ==
    IF a.k = "nan" \/ b.k = "nan" THEN FR(NaN, {}, 0)
    ELSE IF a.k = "inf" THEN
         IF b.k = "inf" THEN FR(NaN, {}, 0) ELSE FR(Inf(a.s * b.s), {}, 0)
    ELSE IF b.k = "inf" THEN FR(Zero(a.s * b.s), {}, 0)
    ELSE IF b.k = "zero" THEN
         IF a.k = "zero" THEN FR(NaN, {}, 0) ELSE FR(Inf(a.s * b.s), {}, 0)
    ELSE IF a.k = "zero" THEN FR(Zero(a.s * b.s), {}, 0)
    ELSE RoundQ(a.s * b.s * a.n * One, b.n, rnd, 1)

\* mpfr_floor: the next integer not above a; inexact when it differs.
mpfr_floor(a) ==
    IF a.k # "fin" \/ (a.n \div One) * One = a.n THEN FR(a, {}, 0)
    ELSE IF a.s > 0
    THEN FR(IF a.n < One THEN Zero(1) ELSE Fin(1, (a.n \div One) * One),
            {"inexact"}, -1)
    ELSE FR(Fin(-1, ((a.n \div One) + 1) * One), {"inexact"}, -1)

\* the sign of an exact zero a * b - c2
FmsZeroSign(a, b, c2, rnd) ==
    IF (a.k = "zero" \/ b.k = "zero") /\ c2.k = "zero" /\ a.s * b.s = -c2.s
    THEN -c2.s
    ELSE IF rnd = "RNDD" THEN -1 ELSE 1

\* mpfr_fms: a * b - c2 with a single rounding.
mpfr_fms(a, b, c2, rnd) ==
    IF a.k = "nan" \/ b.k = "nan" \/ c2.k = "nan" THEN FR(NaN, {}, 0)
    ELSE IF (a.k = "inf" /\ b.k = "zero") \/ (a.k = "zero" /\ b.k = "inf")
    THEN FR(NaN, {}, 0)
    ELSE IF a.k = "inf" \/ b.k = "inf"
    THEN IF c2.k = "inf" /\ c2.s = a.s * b.s THEN FR(NaN, {}, 0)
         ELSE FR(Inf(a.s * b.s), {}, 0)
    ELSE IF c2.k = "inf" THEN FR(Inf(-c2.s), {}, 0)
    ELSE RoundQ(a.s * a.n * b.s * b.n - c2.s * c2.n * One, One, rnd,
                FmsZeroSign(a, b, c2, rnd))

\* mpfr_neg: the sign flipped; exact at equal precision.
mpfr_neg(a, rnd) ==
    IF a.k = "nan" THEN FR(a, {}, 0) ELSE FR(Val("mpfr", a.k, -a.s, a.n, 1), {}, 0)

\* a between the multiples lo and lo + MinMag of the least positive real
SubnormalRound(a, lo, rc, rnd) ==
    IF Away(rnd, a.s) \/ (rnd = "RNDN" /\
          (2 * (a.n - lo) > MinMag \/
           (2 * (a.n - lo) = MinMag /\
            (IF rc # 0 THEN rc # a.s ELSE (lo \div MinMag) % 2 = 1))))
    THEN FR(Fin(a.s, lo + MinMag), {"underflow", "inexact"}, a.s)
    ELSE FR(Fin(a.s, lo), {"underflow", "inexact"}, -a.s)

\* mpfr_subnormalize: a rounded to the multiples of the least positive real,
\* its earlier ternary rc deciding a tie.
mpfr_subnormalize(a, rc, rnd) ==
    IF a.k # "fin" \/ a.n % MinMag = 0 THEN FR(a, {}, rc)
    ELSE SubnormalRound(a, a.n - (a.n % MinMag), rc, rnd)

(***************************************************************************)
(* Contexts.                                                               *)
(***************************************************************************)
Context(flags, traps, round, readonly, subnormalize) ==
    [flags |-> flags, traps |-> traps, round |-> round,
     readonly |-> readonly, subnormalize |-> subnormalize]

GET_MPFR_ROUND(c) == c.round

\* GMPy_CTXT_Copy: a fresh writable context with the same settings and flags.
GMPy_CTXT_Copy(c) == [c EXCEPT !.readonly = FALSE]

\* SUBNORMALIZE(v): mpfr_subnormalize when the context asks for it.
SUBNORMALIZE(r, c) ==
    IF c.subnormalize THEN mpfr_subnormalize(r.v, r.rc, GET_MPFR_ROUND(c))
    ELSE FR(r.v, {}, r.rc)

\* MERGE_FLAGS: the flags MPFR raised, or-ed into the context's.
MERGE_FLAGS(flags, raised) == flags \cup raised

(***************************************************************************)
(* GMPy_Real_DivMod.                                                       *)
(***************************************************************************)
\* GMPy_MPFR_From_Real_Temp: the operand as a real of the context's format.
\* A real operand is taken as it is; an exact one is rounded.
GMPy_MPFR_From_Real_Temp(x, c) ==
    IF x.t \in {"mpfr", "float"} THEN Val("mpfr", x.k, x.s, x.n, 1)
    ELSE SUBNORMALIZE(RoundQ(x.n * One, x.d, GET_MPFR_ROUND(c), 1), c).v

RealObjs == {"result", "rem", "quo", "tempx", "tempy"}

\* the error label (lines 355-361)
RealError(err, flags, raised, held) ==
    Out("error", err, NULL, NULL, "Real", FALSE, held, Release(held), {},
        flags, raised)

\* inexact tested before underflow and overflow: a wrong variant
TrapErrorInexactFirst(raised, traps) ==
    IF "inexact" \in raised /\ "inexact" \in traps THEN "GMPY_INEXACT"
    ELSE IF "underflow" \in raised /\ "underflow" \in traps THEN "GMPY_UNDERFLOW"
    ELSE IF "overflow" \in raised /\ "overflow" \in traps THEN "GMPY_OVERFLOW"
    ELSE "none"

\* lines 333-344: the first raised flag whose trap is enabled
TrapError(raised, traps) ==
    IF "underflow" \in raised /\ "underflow" \in traps THEN "GMPY_UNDERFLOW"
    ELSE IF "overflow" \in raised /\ "overflow" \in traps THEN "GMPY_OVERFLOW"
    ELSE IF "inexact" \in raised /\ "inexact" \in traps THEN "GMPY_INEXACT"
    ELSE "none"

\* lines 332-349: merge the flags, test the traps, return the pair.
RealReturn(quo, rem, raised, flags, c) ==
    IF TrapError(raised, c.traps) # "none"
    THEN RealError(TrapError(raised, c.traps), MERGE_FLAGS(flags, raised),
                   raised, RealObjs)
    ELSE Out("pair", "none", quo, rem, "Real", FALSE, RealObjs,
             Release({"tempx", "tempy"}), {"quo", "rem"},
             MERGE_FLAGS(flags, raised), raised)

RealSubnormalized(quo1, rem1, raised0, flags, c) ==
    RealReturn(quo1.v, rem1.v, raised0 \cup rem1.fl \cup quo1.fl, flags, c)

\* lines 330-349: quo and rem (value, flags raised, ternary) subnormalized,
\* the flags merged, the traps tested.
RealFinish(quo, rem, flags, c) ==
    RealSubnormalized(SUBNORMALIZE(FR(quo.v, {}, 0), c), SUBNORMALIZE(rem, c),
                      quo.fl \cup rem.fl, flags, c)

\* the sign test inverted: a wrong variant
InfDivisorQuoInverted(tempx, tempy) ==
    IF mpfr_zero_p(tempx) THEN mpfr_set_zero(mpfr_sgn(tempy))
    ELSE IF mpfr_signbit(tempx) = mpfr_signbit(tempy)
    THEN mpfr_set_si(-1, "RNDN")
    ELSE mpfr_set_si(0, "RNDN")

\* lines 310-321: the quotient for an infinite y and a finite x
InfDivisorQuo(tempx, tempy) ==
    IF mpfr_zero_p(tempx) THEN mpfr_set_zero(mpfr_sgn(tempy))
    ELSE IF mpfr_signbit(tempx) # mpfr_signbit(tempy)
    THEN mpfr_set_si(-1, "RNDN")
    ELSE mpfr_set_si(0, "RNDN")

\* lines 310-321: the remainder for an infinite y and a finite x
InfDivisorRem(tempx, tempy, c) ==
    IF mpfr_zero_p(tempx) THEN mpfr_set_zero(mpfr_sgn(tempy))
    ELSE IF mpfr_signbit(tempx) # mpfr_signbit(tempy)
    THEN mpfr_set_inf(mpfr_sgn(tempy))
    ELSE mpfr_set(tempx, GET_MPFR_ROUND(c))

\* lines 304-322: y is infinite, x is finite.
RealInfDivisor(tempx, tempy, flags, c) ==
    IF "invalid" \in c.traps
    THEN RealError("GMPY_INVALID", flags \cup {"invalid"}, {}, RealObjs)
    ELSE RealFinish(InfDivisorQuo(tempx, tempy), InfDivisorRem(tempx, tempy, c),
                    flags \cup {"invalid"}, c)

\* line 328: rem negated; its ternary stays that of mpfr_fms
GeneralNeg(q1fl, q2, r1, tempx, tempy, flags, c) ==
    RealFinish(FR(q2.v, q1fl \cup q2.fl, 0),
               FR(mpfr_neg(r1.v, GET_MPFR_ROUND(c)).v, r1.fl, r1.rc),
               flags, c)

\* lines 326-327: rem = quo * y - x
GeneralFms(q1fl, q2, tempx, tempy, flags, c) ==
    GeneralNeg(q1fl, q2, mpfr_fms(q2.v, tempy, tempx, GET_MPFR_ROUND(c)),
               tempx, tempy, flags, c)

\* line 325: quo floored
GeneralFloor(q1, tempx, tempy, flags, c) ==
    GeneralFms(q1.fl, mpfr_floor(q1.v), tempx, tempy, flags, c)

\* lines 323-329: the quotient rounded down and floored, then x - quo * y.
RealGeneral(tempx, tempy, flags, c) ==
    GeneralFloor(mpfr_div(tempx, tempy, "RNDD"), tempx, tempy, flags, c)

\* the invalid flag set only when the call goes on: a wrong variant
RealSpecialFlagAfterTrap(tempx, tempy, flags, c) ==
    IF mpfr_nan_p(tempx) \/ mpfr_nan_p(tempy) \/ mpfr_inf_p(tempx)
    THEN IF "invalid" \in c.traps
         THEN RealError("GMPY_INVALID", flags, {}, RealObjs)
         ELSE RealFinish(mpfr_set_nan, mpfr_set_nan, flags \cup {"invalid"}, c)
    ELSE IF mpfr_inf_p(tempy) THEN RealInfDivisor(tempx, tempy, flags, c)
    ELSE RealGeneral(tempx, tempy, flags, c)

\* lines 292-329: the special values, after mpfr_clear_flags.
RealSpecial(tempx, tempy, flags, c) ==
    IF mpfr_nan_p(tempx) \/ mpfr_nan_p(tempy) \/ mpfr_inf_p(tempx)
    THEN IF "invalid" \in c.traps
         THEN RealError("GMPY_INVALID", flags \cup {"invalid"}, {}, RealObjs)
         ELSE RealFinish(mpfr_set_nan, mpfr_set_nan, flags \cup {"invalid"}, c)
    ELSE IF mpfr_inf_p(tempy) THEN RealInfDivisor(tempx, tempy, flags, c)
    ELSE RealGeneral(tempx, tempy, flags, c)

\* divzero set only when the call goes on: a wrong variant
RealZeroDivisorFlagUntrapped(tempx, tempy, c) ==
    IF mpfr_zero_p(tempy) /\ "divzero" \in c.traps
    THEN RealError("GMPY_DIVZERO", c.flags, {}, RealObjs)
    ELSE RealSpecial(tempx, tempy,
                     IF mpfr_zero_p(tempy) THEN c.flags \cup {"divzero"}
                     ELSE c.flags, c)

\* lines 285-291: a zero y sets divzero and, trapped, ends the call.
RealZeroDivisor(tempx, tempy, c) ==
    IF mpfr_zero_p(tempy) /\ "divzero" \in c.traps
    THEN RealError("GMPY_DIVZERO", c.flags \cup {"divzero"}, {}, RealObjs)
    ELSE RealSpecial(tempx, tempy,
                     IF mpfr_zero_p(tempy) THEN c.flags \cup {"divzero"}
                     ELSE c.flags, c)

\* lines 279-350.
RealBody(x, y, c, fail) ==
    IF fail \in {"tempx", "tempy"}
    THEN Out("error", "SystemError", NULL, NULL, "Real", FALSE,
             RealObjs \ {fail}, Release(RealObjs \ {fail}), {}, c.flags, {})
    ELSE RealZeroDivisor(GMPy_MPFR_From_Real_Temp(x, c),
                         GMPy_MPFR_From_Real_Temp(y, c), c)

GMPy_Real_DivMod(x, y, c, fail) ==
    IF fail \in {"result", "rem", "quo"} THEN AllocFailure("Real", fail, c)
    ELSE IF IS_REAL(x) /\ IS_REAL(y) THEN RealBody(x, y, c, fail)
    ELSE NotImplementedReturn("Real", c)

(***************************************************************************)
(* GMPy_Complex_DivMod and the dispatchers.                                *)
(***************************************************************************)
TypeError(algo, c) ==
    Out("error", "TypeError", NULL, NULL, algo, FALSE, {}, NoRel, {},
        c.flags, {})

GMPy_Complex_DivMod(x, y, c) == TypeError("Complex", c)

GMPy_mpz_divmod_fast(x, y, c, fail) ==
    IF IS_INTEGER(x) /\ IS_INTEGER(y) THEN GMPy_Integer_DivMod(x, y, c, fail)
    ELSE IF IS_RATIONAL(x) /\ IS_RATIONAL(y)
    THEN GMPy_Rational_DivMod(x, y, c, fail)
    ELSE IF IS_REAL(x) /\ IS_REAL(y) THEN GMPy_Real_DivMod(x, y, c, fail)
    ELSE IF IS_COMPLEX(x) /\ IS_COMPLEX(y) THEN GMPy_Complex_DivMod(x, y, c)
    ELSE Out("notimpl", "none", NULL, NULL, "none", FALSE, {}, NoRel, {},
             c.flags, {})

GMPy_mpq_divmod_fast(x, y, c, fail) ==
    IF IS_RATIONAL(x) /\ IS_RATIONAL(y)
    THEN GMPy_Rational_DivMod(x, y, c, fail)
    ELSE IF IS_REAL(x) /\ IS_REAL(y) THEN GMPy_Real_DivMod(x, y, c, fail)
    ELSE IF IS_COMPLEX(x) /\ IS_COMPLEX(y) THEN GMPy_Complex_DivMod(x, y, c)
    ELSE Out("notimpl", "none", NULL, NULL, "none", FALSE, {}, NoRel, {},
             c.flags, {})

GMPy_mpfr_divmod_fast(x, y, c, fail) ==
    IF IS_REAL(x) /\ IS_REAL(y) THEN GMPy_Real_DivMod(x, y, c, fail)
    ELSE IF IS_COMPLEX(x) /\ IS_COMPLEX(y) THEN GMPy_Complex_DivMod(x, y, c)
    ELSE Out("notimpl", "none", NULL, NULL, "none", FALSE, {}, NoRel, {},
             c.flags, {})

GMPy_mpc_divmod_fast(x, y, c, fail) == GMPy_Complex_DivMod(x, y, c)

\* the Real layer tested before the exact ones: a wrong variant
NumberDivModRealFirst(x, y, c, fail) ==
    IF IS_REAL(x) /\ IS_REAL(y) THEN GMPy_Real_DivMod(x, y, c, fail)
    ELSE IF IS_INTEGER(x) /\ IS_INTEGER(y)
    THEN GMPy_Integer_DivMod(x, y, c, fail)
    ELSE IF IS_RATIONAL(x) /\ IS_RATIONAL(y)
    THEN GMPy_Rational_DivMod(x, y, c, fail)
    ELSE IF IS_COMPLEX(x) /\ IS_COMPLEX(y) THEN GMPy_Complex_DivMod(x, y, c)
    ELSE TypeError("none", c)

\* the sentinel returned where the type error is raised: a wrong variant
NumberDivModSentinel(x, y, c, fail) ==
    IF IS_INTEGER(x) /\ IS_INTEGER(y) THEN GMPy_Integer_DivMod(x, y, c, fail)
    ELSE IF IS_RATIONAL(x) /\ IS_RATIONAL(y)
    THEN GMPy_Rational_DivMod(x, y, c, fail)
    ELSE IF IS_REAL(x) /\ IS_REAL(y) THEN GMPy_Real_DivMod(x, y, c, fail)
    ELSE IF IS_COMPLEX(x) /\ IS_COMPLEX(y) THEN GMPy_Complex_DivMod(x, y, c)
    ELSE Out("notimpl", "none", NULL, NULL, "none", FALSE, {}, NoRel, {},
             c.flags, {})

\* lines 393-410
GMPy_Number_DivMod(x, y, c, fail) ==
    IF IS_INTEGER(x) /\ IS_INTEGER(y) THEN GMPy_Integer_DivMod(x, y, c, fail)
    ELSE IF IS_RATIONAL(x) /\ IS_RATIONAL(y)
    THEN GMPy_Rational_DivMod(x, y, c, fail)
    ELSE IF IS_REAL(x) /\ IS_REAL(y) THEN GMPy_Real_DivMod(x, y, c, fail)
    ELSE IF IS_COMPLEX(x) /\ IS_COMPLEX(y) THEN GMPy_Complex_DivMod(x, y, c)
    ELSE TypeError("none", c)

(***************************************************************************)
(* GMPy_Context_DivMod.                                                    *)
(***************************************************************************)
\* a read-only context used in place: a wrong variant
WorkingContextInPlace(selfctx, fail) ==
    IF selfctx THEN "ctx" ELSE "cur"

\* lines 427-444: the context the call works on: a copy of a read-only
\* self ("none" when the copy fails), a writable self, else the current one.
WorkingContext(selfctx, fail) ==
    IF selfctx
    THEN IF ctx.readonly
         THEN IF fail = "ctxcopy" THEN "none" ELSE "copy"
         ELSE "ctx"
    ELSE "cur"

ContextOf(wc) ==
    IF wc = "ctx" THEN ctx
    ELSE IF wc = "copy" THEN GMPy_CTXT_Copy(ctx)
    ELSE cur

\* What a call leaves in `last`: the entry point, the operands, the failure
\* injected, the working context before the call (c) and which it was (wc),
\* the outcome (o), the context references acquired and released, and the
\* flags the bound context had before the call (self).
Call(fn, x, y, fail, wc, o, acq, crel) ==
    [fn |-> fn, x |-> x, y |-> y, fail |-> fail, wc |-> wc,
     c |-> ContextOf(wc), o |-> o, acq |-> acq, crel |-> crel,
     self |-> ctx.flags]

NoCall == [fn |-> "none"]

GMPy_Context_DivMod(selfctx, args, fail) ==
    IF Len(args) # 2
    THEN Call("GMPy_Context_DivMod", NULL, NULL, fail, "none",
              TypeError("none", ctx), 0, 0)
    ELSE LET wc == WorkingContext(selfctx, fail)
         IN  IF wc = "none"
             THEN Call("GMPy_Context_DivMod", args[1], args[2], fail, "none",
                       Out("error", "MemoryError", NULL, NULL, "none", FALSE,
                           {}, NoRel, {}, ctx.flags, {}), 0, 0)
             ELSE Call("GMPy_Context_DivMod", args[1], args[2], fail, wc,
                       GMPy_Number_DivMod(args[1], args[2], ContextOf(wc), fail),
                       1, 1)

(***************************************************************************)
(* The state machine.                                                      *)
(***************************************************************************)
Fails == {"none", "result", "rem", "quo", "tempx", "tempy"}

\* the call's outcome stored, its flags written to the context it worked on
Returns(r) ==
    /\ last' = r
    /\ pc' = "returned"
    /\ ctx' = IF r.wc = "ctx" THEN [ctx EXCEPT !.flags = r.o.flags] ELSE ctx
    /\ cur' = IF r.wc = "cur" THEN [cur EXCEPT !.flags = r.o.flags] ELSE cur

\* the caller takes the outcome
Consume ==
    /\ pc = "returned"
    /\ pc' = "idle"
    /\ last' = NoCall
    /\ UNCHANGED <<ctx, cur>>

DefaultContext == Context({}, {}, "RNDN", FALSE, FALSE)

(***************************************************************************)
(* The exact layers called directly, with the current context.             *)
(***************************************************************************)
Canonical(n, d) == GCD(Abs(n), d) = 1

IntArgs == {Mpz(n) : n \in -MaxInt..MaxInt} \cup {PyInt(n) : n \in -MaxInt..MaxInt}
RatArgs == {Mpq(n, d) : n \in -MaxNum..MaxNum, d \in 1..MaxDen}
           \cup {Fraction(n, d) : n \in -MaxNum..MaxNum, d \in 2..MaxDen}
           \cup {Mpz(n) : n \in -MaxNum..MaxNum}
           \cup {PyInt(n) : n \in {-MaxNum, 0, MaxNum}}
Others == {Val("str", "none", 0, 0, 1), Val("mpc", "none", 0, 0, 1)}

IntegerDivMod ==
    /\ pc = "idle"
    /\ \E x \in IntArgs \cup {Mpq(1, 2)} \cup Others,
          y \in IntArgs \cup {Mpq(1, 2)} \cup Others, fail \in Fails :
          Returns(Call("GMPy_Integer_DivMod", x, y, fail, "cur",
                       GMPy_Integer_DivMod(x, y, cur, fail), 0, 0))

RationalDivMod ==
    /\ pc = "idle"
    /\ \E x \in {v \in RatArgs : Canonical(v.n, v.d)} \cup Others,
          y \in {v \in RatArgs : Canonical(v.n, v.d)} \cup Others,
          fail \in Fails :
          Returns(Call("GMPy_Rational_DivMod", x, y, fail, "cur",
                       GMPy_Rational_DivMod(x, y, cur, fail), 0, 0))

InitExact ==
    /\ ctx = DefaultContext
    /\ cur = DefaultContext
    /\ last = NoCall
    /\ pc = "idle"

NextExact == IntegerDivMod \/ RationalDivMod \/ Consume

SpecExact == InitExact /\ [][NextExact]_vars

(***************************************************************************)
(* The Real layer called directly, once, with the caller's writable        *)
(* context in each of its settings.                                        *)
(***************************************************************************)
RealVals == {NaN, Inf(1), Inf(-1), Zero(1), Zero(-1)}
            \cup {Fin(s, n) : s \in {1, -1}, n \in Mags}

\* the reals of a context's format: on its subnormal grid when it has one
InFormat(v, c) == c.subnormalize /\ v.k = "fin" => v.n % MinMag = 0

RealArgs == RealVals
            \cup {Val("float", "fin", 1, One, 1), PyInt(-1), Mpq(-1, 2)}

\* every pair of operands with no failure, a few pairs with each failure
RealInputs ==
    ((RealArgs \cup Others) \X (RealArgs \cup Others) \X {"none"})
    \cup ({NaN, Zero(1), Fin(1, One), PyInt(-1)}
          \X {Inf(-1), Zero(-1), Fin(-1, MinMag)} \X Fails)

RealDivMod ==
    /\ pc = "idle"
    /\ \E in \in RealInputs :
          /\ InFormat(in[1], ctx) /\ InFormat(in[2], ctx)
          /\ Returns(Call("GMPy_Real_DivMod", in[1], in[2], in[3], "ctx",
                          GMPy_Real_DivMod(in[1], in[2], ctx, in[3]), 0, 0))

InitReal ==
    /\ ctx \in {Context({}, traps, round, FALSE, sub) :
                  traps \in SUBSET Flags, round \in RoundModes,
                  sub \in BOOLEAN}
    /\ cur = DefaultContext
    /\ last = NoCall
    /\ pc = "idle"

NextReal == RealDivMod

SpecReal == InitReal /\ [][NextReal]_vars

(***************************************************************************)
(* context.divmod bound to the caller's context, writable or read-only,    *)
(* called again and again.                                                 *)
(***************************************************************************)
CtxArgs == {NaN, Inf(1), Inf(-1), Zero(1), Zero(-1)}
           \cup {Fin(sg, n) : sg \in {1, -1}, n \in {MinMag, One, MaxMag}}
           \cup {Val("float", "fin", 1, One, 1), PyInt(-1), Mpz(0), Mpq(-1, 2)}
           \cup Others

\* the argument tuples: every pair with no failure, a few pairs with each
\* failure, and tuples of the wrong size
ContextInputs ==
    {<<<<x, y>>, "none">> : x \in CtxArgs, y \in CtxArgs}
    \cup {<<<<x, y>>, fail>> : x \in {NaN, Fin(1, One), PyInt(-1)},
                               y \in {Zero(-1), Fin(-1, MinMag), Mpz(0)},
                               fail \in Fails \cup {"ctxcopy"}}
    \cup {<<<<Mpz(1)>>, "none">>, <<<<Mpz(1), Mpz(1), Mpz(1)>>, "none">>}

ContextDivMod ==
    /\ pc = "idle"
    /\ \E in \in ContextInputs :
          Returns(GMPy_Context_DivMod(TRUE, in[1], in[2]))

InitContext ==
    /\ ctx \in {Context({}, traps, "RNDN", ro, FALSE) :
                  traps \in SUBSET Flags, ro \in BOOLEAN}
    /\ cur = DefaultContext
    /\ last = NoCall
    /\ pc = "idle"

NextContext == ContextDivMod \/ Consume

SpecContext == InitContext /\ [][NextContext]_vars

(***************************************************************************)
(* The entry points of the module: the four binary-operator slots, the     *)
(* C API GMPy_Number_DivMod, and divmod called with no bound context;      *)
(* all work on the current context.                                        *)
(***************************************************************************)
Numbers == {Mpz(-7), Mpz(2), PyInt(0), PyInt(7), Mpq(7, 2), Mpq(0, 1),
            Fraction(1, 3), Fin(1, One), Fin(-1, MinMag), Zero(1), NaN,
            Val("float", "inf", 1, 0, 1), Val("mpc", "none", 0, 0, 1),
            Val("complex", "none", 0, 0, 1)}
NonNumbers == {Val("str", "none", 0, 0, 1)}
DispArgs == Numbers \cup NonNumbers

NumberDivMod ==
    /\ pc = "idle"
    /\ \E x \in DispArgs, y \in DispArgs, fail \in {"none", "quo", "tempy"} :
          Returns(Call("GMPy_Number_DivMod", x, y, fail, "cur",
                       GMPy_Number_DivMod(x, y, cur, fail), 0, 0))

MpzDivModFast ==
    /\ pc = "idle"
    /\ \E x \in DispArgs, y \in DispArgs, fail \in {"none", "quo", "tempy"} :
          /\ "mpz" \in {x.t, y.t}
          /\ Returns(Call("GMPy_mpz_divmod_fast", x, y, fail, "cur",
                          GMPy_mpz_divmod_fast(x, y, cur, fail), 0, 0))

MpqDivModFast ==
    /\ pc = "idle"
    /\ \E x \in DispArgs, y \in DispArgs, fail \in {"none", "quo", "tempy"} :
          /\ "mpq" \in {x.t, y.t}
          /\ Returns(Call("GMPy_mpq_divmod_fast", x, y, fail, "cur",
                          GMPy_mpq_divmod_fast(x, y, cur, fail), 0, 0))

MpfrDivModFast ==
    /\ pc = "idle"
    /\ \E x \in DispArgs, y \in DispArgs, fail \in {"none", "quo", "tempy"} :
          /\ "mpfr" \in {x.t, y.t}
          /\ Returns(Call("GMPy_mpfr_divmod_fast", x, y, fail, "cur",
                          GMPy_mpfr_divmod_fast(x, y, cur, fail), 0, 0))

MpcDivModFast ==
    /\ pc = "idle"
    /\ \E x \in DispArgs, y \in DispArgs, fail \in {"none", "quo", "tempy"} :
          /\ "mpc" \in {x.t, y.t}
          /\ Returns(Call("GMPy_mpc_divmod_fast", x, y, fail, "cur",
                          GMPy_mpc_divmod_fast(x, y, cur, fail), 0, 0))

ModuleDivMod ==
    /\ pc = "idle"
    /\ \E x \in DispArgs, y \in DispArgs, fail \in {"none", "quo", "tempy"} :
          Returns(GMPy_Context_DivMod(FALSE, <<x, y>>, fail))

Init ==
    /\ ctx = DefaultContext
    /\ cur = DefaultContext
    /\ last = NoCall
    /\ pc = "idle"

Next ==
    \/ NumberDivMod
    \/ MpzDivModFast
    \/ MpqDivModFast
    \/ MpfrDivModFast
    \/ MpcDivModFast
    \/ ModuleDivMod
    \/ Consume

Spec == Init /\ [][Next]_vars

(***************************************************************************)
(* Properties of the exact layers, checked under SpecExact.                *)
(***************************************************************************)
Returned == pc = "returned"

ExactCall == Returned /\ last.fn \in {"GMPy_Integer_DivMod", "GMPy_Rational_DivMod"}

\* both operands belong to the layer of the algorithm that was called
InLayer ==
    IF last.fn = "GMPy_Integer_DivMod"
    THEN IS_INTEGER(last.x) /\ IS_INTEGER(last.y)
    ELSE IS_RATIONAL(last.x) /\ IS_RATIONAL(last.y)

\* x = q * y + r, r zero or of the sign of y, |r| < |y|, over the rationals
FloorPair(x, y, q, r) ==
    /\ q.d = 1 /\ r.d >= 1
    /\ x.n * y.d * r.d = q.n * y.n * x.d * r.d + r.n * x.d * y.d
    /\ (r.n = 0 \/ Sgn(r.n) = Sgn(y.n))
    /\ Abs(r.n) * y.d < Abs(y.n) * r.d

SignExamples ==
    /\ (last.x.n = -7 /\ last.y.n = 2 /\ last.x.d = 1 /\ last.y.d = 1)
          => (last.o.quo.n = -4 /\ last.o.rem.n = 1)
    /\ (last.x.n = 7 /\ last.y.n = -2 /\ last.x.d = 1 /\ last.y.d = 1)
          => (last.o.quo.n = -4 /\ last.o.rem.n = -1)
    /\ (last.x.n = -7 /\ last.y.n = -2 /\ last.x.d = 1 /\ last.y.d = 1)
          => (last.o.quo.n = 3 /\ last.o.rem.n = -1)

\* C1: whenever the Integer or the Rational algorithm is given two operands
\* of its layer with a nonzero divisor, and no allocation or conversion
\* fails, it returns a pair (q, r), and every pair it returns, on each of its
\* code paths, satisfies x = q * y + r with r zero or of the sign of y and
\* |r| < |y|; divmod(-7, 2) = (-4, 1), divmod(7, -2) = (-4, -1) and
\* divmod(-7, -2) = (3, -1).
C1_FloorIdentity ==
    (ExactCall /\ InLayer) =>
        /\ (last.y.n # 0 /\ last.fail = "none") => last.o.res = "pair"
        /\ last.o.res = "pair" =>
              /\ last.y.n # 0
              /\ FloorPair(last.x, last.y, last.o.quo, last.o.rem)
              /\ last.o.quo.t = "mpz"
              /\ last.o.rem.t =
                    (IF last.fn = "GMPy_Integer_DivMod" THEN "mpz" ELSE "mpq")
              /\ SignExamples

\* the path of a negative machine-integer divisor has returned (-4, -1)
C1_Witness ==
    /\ Returned /\ last.fn = "GMPy_Integer_DivMod"
    /\ last.x = Mpz(7) /\ last.y = PyInt(-2)
    /\ last.o.res = "pair" /\ last.o.quo = Mpz(-4) /\ last.o.rem = Mpz(-1)

\* C2: a zero divisor given to the Integer or the Rational algorithm ends in
\* an error return, ZeroDivisionError unless an allocation or a conversion
\* had failed before the test; no division primitive is ever called with
\* a zero divisor, and the context's flags stay as they were.
C2_DivisionByZero ==
    (ExactCall /\ InLayer) =>
        /\ ~last.o.zdiv
        /\ last.y.n = 0 =>
              /\ last.o.res = "error"
              /\ last.o.quo = NULL /\ last.o.rem = NULL
              /\ \/ last.o.err = "ZeroDivisionError"
                 \/ /\ last.fail # "none"
                    /\ last.o.err \in {"MemoryError", "SystemError"}
              /\ last.fail = "none" => last.o.err = "ZeroDivisionError"
              /\ last.o.flags = last.c.flags
              /\ cur.flags = last.c.flags

\* a machine-integer zero divisor has been refused
C2_Witness ==
    /\ Returned /\ last.fn = "GMPy_Integer_DivMod"
    /\ last.x = Mpz(7) /\ last.y = PyInt(0) /\ last.fail = "none"
    /\ last.o.res = "error" /\ last.o.err = "ZeroDivisionError"
    /\ ~last.o.zdiv

\* every object the call allocated released exactly once, the returned
\* pair with its quotient and remainder excepted
AllReleased(o) ==
    \A ob \in Objs :
        o.rel[ob] = (IF /\ ob \in o.alloc
                        /\ ~(o.res = "pair" /\ ob \in {"result", "quo", "rem"})
                     THEN 1 ELSE 0)

\* C10: on every exit path of the algorithms (allocation failure, conversion
\* failure, division by zero, the not-supported return, success) every
\* temporary allocated so far is released exactly once, and on success the
\* pair owns the quotient and the remainder.
C10_ReleasedOnEveryExit ==
    ExactCall =>
        /\ AllReleased(last.o)
        /\ last.o.owned = (IF last.o.res = "pair" THEN {"quo", "rem"} ELSE {})

(***************************************************************************)
(* Properties of the Real layer, checked under SpecReal.                   *)
(***************************************************************************)
\* GMPy_Real_DivMod has returned from a call with two Real operands in
\* which no allocation and no conversion failed
RealCall ==
    /\ Returned /\ last.fn = "GMPy_Real_DivMod"
    /\ IS_REAL(last.x) /\ IS_REAL(last.y) /\ last.fail = "none"

\* the operands as the algorithm sees them
TempX == GMPy_MPFR_From_Real_Temp(last.x, last.c)
TempY == GMPy_MPFR_From_Real_Temp(last.y, last.c)

NoPair(err) ==
    /\ last.o.res = "error" /\ last.o.err = err
    /\ last.o.quo = NULL /\ last.o.rem = NULL

C7_ZeroDivisorNaNPair ==
    (RealCall /\ TempY.k = "zero") =>
        /\ "divzero" \in ctx.flags
        /\ "divzero" \in last.c.traps => NoPair("GMPY_DIVZERO")
        /\ ("divzero" \notin last.c.traps /\ TempX.k \in {"zero", "fin"}) =>
              /\ last.o.res = "pair"
              /\ last.o.quo = NaN /\ last.o.rem = NaN

\* C7 amended: a zero y sets the divide-by-zero flag; with the
\* divide-by-zero trap enabled the call fails with the divide-by-zero error
\* whatever x is; with the trap disabled and x finite the call goes on into
\* the general division and returns a NaN remainder with the quotient the
\* division gives: NaN for a zero x, the infinity of the sign of x times the
\* sign of y for a nonzero x.
C7_ZeroDivisor ==
    (RealCall /\ TempY.k = "zero") =>
        /\ "divzero" \in ctx.flags
        /\ "divzero" \in last.c.traps => NoPair("GMPY_DIVZERO")
        /\ ("divzero" \notin last.c.traps /\ TempX.k \in {"zero", "fin"}) =>
              /\ last.o.res = "pair"
              /\ last.o.rem = NaN
              /\ last.o.quo = (IF TempX.k = "zero" THEN NaN
                               ELSE Inf(TempX.s * TempY.s))

\* divmod(1.0, 0.0) with the trap disabled has returned (Infinity, NaN)
C7_Witness ==
    /\ RealCall /\ last.x = Fin(1, One) /\ last.y = Zero(1)
    /\ "divzero" \notin last.c.traps /\ "divzero" \in ctx.flags
    /\ last.o.res = "pair"
    /\ last.o.quo = Inf(1) /\ last.o.rem = NaN

Trappable == {"underflow", "overflow", "inexact"}

\* the call got as far as merging the flags: no divide-by-zero and no
\* invalid trap ended it
Merged ==
    /\ RealCall
    /\ ~(TempY.k = "zero" /\ "divzero" \in last.c.traps)
    /\ ~(/\ "nan" \in {TempX.k, TempY.k} \/ "inf" \in {TempX.k, TempY.k}
         /\ "invalid" \in last.c.traps)

FirstInOrder(S) ==
    IF "underflow" \in S THEN "GMPY_UNDERFLOW"
    ELSE IF "overflow" \in S THEN "GMPY_OVERFLOW"
    ELSE "GMPY_INEXACT"

\* x - q * y in units of 1 / One, q being the floored quotient
ExactRemainder(x, y, q) == x.s * x.n * One - q.s * q.n * y.s * y.n

\* the general branch ran with a finite quotient whose exact remainder is
\* no real of the format
RemainderInexact ==
    /\ TempX.k = "fin" /\ TempY.k = "fin"
    /\ LET q == mpfr_floor(mpfr_div(TempX, TempY, "RNDD").v).v
           r == ExactRemainder(TempX, TempY, q)
       IN  /\ q.k \in {"zero", "fin"}
           /\ r # 0
           /\ ~(Abs(r) % One = 0 /\ (Abs(r) \div One) \in Mags)

\* C8: the underflow, overflow and inexact flags the computation raised are
\* merged into the context; if one of them has its trap enabled the call
\* returns no pair and fails with the error of the first raised and trapped
\* flag in the order underflow, overflow, inexact; if none has, the call
\* returns the pair and leaves the raised flags set.  A remainder that is
\* not exactly representable raises inexact: with only the inexact trap
\* enabled the call fails with the inexact error, with no trap enabled it
\* returns a pair with the inexact flag set.
C8_TrapGating ==
    Merged =>
        LET hit == last.o.raised \cap last.c.traps \cap Trappable
        IN  /\ last.o.raised \subseteq Trappable
            /\ last.o.raised \subseteq ctx.flags
            /\ hit # {} => NoPair(FirstInOrder(hit))
            /\ hit = {} => last.o.res = "pair" /\ last.o.quo # NULL
            /\ RemainderInexact =>
                  /\ "inexact" \in last.o.raised
                  /\ last.c.traps \cap Trappable = {"inexact"} =>
                        NoPair("GMPY_INEXACT")
                  /\ last.c.traps \cap Trappable = {} =>
                        last.o.res = "pair" /\ "inexact" \in ctx.flags

\* underflow and inexact were both raised and both trapped, and the call
\* failed with the underflow error
C8_Witness ==
    /\ Merged /\ RemainderInexact
    /\ {"underflow", "inexact"} \subseteq (last.o.raised \cap last.c.traps)
    /\ NoPair("GMPY_UNDERFLOW")

(***************************************************************************)
(* Properties of context.divmod, checked under SpecContext.                *)
(***************************************************************************)
BoundCall == Returned /\ last.fn = "GMPy_Context_DivMod"

\* C4: a read-only context bound to divmod keeps the flags it had, after
\* every call and every sequence of calls, whatever the traps and whether
\* the call succeeds or fails; the call works on a writable copy, which
\* takes the flag updates and is released before the call returns.
C4_ReadOnlyUntouched ==
    ctx.readonly =>
        /\ ctx.flags = {}
        /\ BoundCall =>
              /\ ctx.flags = last.self
              /\ last.wc \in {"copy", "none"}
              /\ last.wc = "copy" =>
                    /\ ~last.c.readonly
                    /\ last.c.flags = last.self
                    /\ last.acq = 1 /\ last.crel = 1
              /\ last.wc = "none" =>
                    \/ last.x = NULL
                    \/ last.fail = "ctxcopy" /\ last.o.err = "MemoryError"

\* a call on a read-only context failed on the divide-by-zero trap: the
\* copy took the flag, the context did not
C4_Witness ==
    /\ BoundCall /\ ctx.readonly /\ last.wc = "copy"
    /\ last.o.res = "error" /\ last.o.err = "GMPY_DIVZERO"
    /\ "divzero" \in last.o.flags
    /\ ctx.flags = {}

\* a call on a writable bound context that ran the Real algorithm past its
\* allocations and conversions
WritableRealCall ==
    /\ BoundCall /\ last.wc = "ctx" /\ last.fail = "none"
    /\ IS_REAL(last.x) /\ IS_REAL(last.y)
    /\ ~(IS_RATIONAL(last.x) /\ IS_RATIONAL(last.y))

SpecialOperand == "nan" \in {TempX.k, TempY.k} \/ "inf" \in {TempX.k, TempY.k}

\* C5 as stated: over the calls made with one writable context no call
\* clears a flag, the flags are visible in the context after each return,
\* and a Real divmod sets divide-by-zero when y is zero, invalid when x or y
\* is NaN or infinite, and the flags the computation raised, also when a
\* trap makes the call fail.
C5_FlagsAlwaysSet ==
    (BoundCall /\ last.wc = "ctx") =>
        /\ last.self \subseteq ctx.flags
        /\ ctx.flags = last.o.flags
        /\ WritableRealCall =>
              /\ TempY.k = "zero" => "divzero" \in ctx.flags
              /\ SpecialOperand => "invalid" \in ctx.flags
              /\ last.o.raised \subseteq ctx.flags

\* C5 amended: over the calls made with one writable context no call
\* clears a flag, the flags are visible in the context after each return,
\* and a Real divmod sets divide-by-zero when y is zero, the flags the
\* computation raised, and invalid when x or y is NaN or infinite, also
\* when the trap of that flag makes the call fail; invalid is not set when
\* y is zero and the divide-by-zero trap has ended the call before the
\* operands were tested.
C5_StickyFlags ==
    (BoundCall /\ last.wc = "ctx") =>
        /\ last.self \subseteq ctx.flags
        /\ ctx.flags = last.o.flags
        /\ WritableRealCall =>
              /\ TempY.k = "zero" => "divzero" \in ctx.flags
              /\ (SpecialOperand
                  /\ ~(TempY.k = "zero" /\ "divzero" \in last.c.traps))
                    => "invalid" \in ctx.flags
              /\ (SpecialOperand /\ TempY.k = "zero"
                  /\ "divzero" \in last.c.traps)
                    => /\ NoPair("GMPY_DIVZERO")
                       /\ ("invalid" \in ctx.flags) = ("invalid" \in last.self)
              /\ last.o.raised \subseteq ctx.flags

\* a later call of a sequence failed on the inexact trap and left the
\* inexact flag set beside the flags of the calls before it
C5_Witness ==
    /\ WritableRealCall
    /\ last.self # {} /\ "inexact" \notin last.self
    /\ NoPair("GMPY_INEXACT")
    /\ "inexact" \in ctx.flags /\ last.self \subseteq ctx.flags

(***************************************************************************)
(* Properties of the dispatchers, checked under Spec.                      *)
(***************************************************************************)
SlotDispatchers == {"GMPy_mpz_divmod_fast", "GMPy_mpq_divmod_fast",
                    "GMPy_mpfr_divmod_fast", "GMPy_mpc_divmod_fast"}
PublicDispatchers == {"GMPy_Number_DivMod", "GMPy_Context_DivMod"}

Dispatched == Returned /\ last.fn \in SlotDispatchers \cup PublicDispatchers

\* the operands share no layer: one of them is no number at all
Unsupported == ~(IS_COMPLEX(last.x) /\ IS_COMPLEX(last.y))

\* no algorithm ran: nothing allocated, no flag touched
NothingRan ==
    /\ last.o.algo = "none" /\ last.o.alloc = {}
    /\ last.o.quo = NULL /\ last.o.rem = NULL
    /\ last.o.flags = last.c.flags /\ cur.flags = last.c.flags

\* C3 as stated: for operands that share no layer every dispatcher, the
\* public GMPy_Number_DivMod and the four per-type ones, returns the
\* not-supported sentinel and no error.
C3_SentinelEverywhere ==
    (Dispatched /\ Unsupported) =>
        last.o.res = "notimpl" /\ last.o.err = "none"

\* C3 amended: for operands that share no layer the per-type dispatchers
\* of mpz, mpq and mpfr return the not-supported sentinel and no error;
\* GMPy_Number_DivMod, also when reached from context.divmod, fails with a
\* type error, and GMPy_mpc_divmod_fast with the type error of the Complex
\* layer; none of them runs an algorithm or touches a flag.
C3_Unsupported ==
    (Dispatched /\ Unsupported) =>
        /\ last.fn \in SlotDispatchers \ {"GMPy_mpc_divmod_fast"} =>
              /\ last.o.res = "notimpl" /\ last.o.err = "none"
              /\ NothingRan
        /\ last.fn \in PublicDispatchers =>
              /\ last.o.res = "error" /\ last.o.err = "TypeError"
              /\ NothingRan
        /\ last.fn = "GMPy_mpc_divmod_fast" =>
              /\ last.o.res = "error" /\ last.o.err = "TypeError"
              /\ last.o.algo = "Complex" /\ last.o.alloc = {}
              /\ cur.flags = last.c.flags

\* GMPy_Number_DivMod has refused a string with a type error
C3_Witness ==
    /\ Returned /\ last.fn = "GMPy_Number_DivMod"
    /\ last.x = Mpz(2) /\ last.y.t = "str"
    /\ last.o.res = "error" /\ last.o.err = "TypeError"
    /\ last.o.algo = "none"

\* the lowest layer an operand is convertible to
Rank(v) ==
    IF v.t \in {"mpz", "int"} THEN 1
    ELSE IF v.t \in {"mpq", "Fraction"} THEN 2
    ELSE IF v.t \in {"mpfr", "float"} THEN 3
    ELSE IF v.t \in {"mpc", "complex"} THEN 4
    ELSE 5

LayerNames == <<"Integer", "Rational", "Real", "Complex">>

\* the lowest layer both operands are convertible to
LowestLayer ==
    LayerNames[IF Rank(last.x) >= Rank(last.y) THEN Rank(last.x)
               ELSE Rank(last.y)]

\* C9: for two numeric operands GMPy_Number_DivMod (also reached from
\* divmod with no bound context) and GMPy_mpz_divmod_fast run the algorithm
\* of the lowest layer both operands are convertible to, and nothing else;
\* GMPy_mpq_divmod_fast and GMPy_mpfr_divmod_fast do the same whenever an
\* operand is of their own type; a pair whose lowest common layer is
\* Complex ends in the complex type error.
C9_LayerSelection ==
    (Dispatched /\ Rank(last.x) <= 4 /\ Rank(last.y) <= 4
     /\ last.wc # "none") =>
        /\ last.fn \in PublicDispatchers \cup {"GMPy_mpz_divmod_fast"} =>
              last.o.algo = LowestLayer
        /\ (last.fn = "GMPy_mpq_divmod_fast"
            /\ "mpq" \in {last.x.t, last.y.t}) => last.o.algo = LowestLayer
        /\ (last.fn = "GMPy_mpfr_divmod_fast"
            /\ "mpfr" \in {last.x.t, last.y.t}) => last.o.algo = LowestLayer
        /\ LowestLayer = "Complex" =>
              /\ last.o.algo = "Complex"
              /\ last.o.res = "error" /\ last.o.err = "TypeError"
        /\ (last.o.res = "pair" /\ LowestLayer = "Integer") =>
              last.o.rem.t = "mpz"
        /\ (last.o.res = "pair" /\ LowestLayer = "Rational") =>
              last.o.rem.t = "mpq"
        /\ (last.o.res = "pair" /\ LowestLayer = "Real") =>
              last.o.rem.t = "mpfr"

\* an int and an mpq have run the Rational algorithm: 7 = 2 * 7/2 + 0
C9_Witness ==
    /\ Returned /\ last.fn = "GMPy_Number_DivMod"
    /\ last.x = PyInt(7) /\ last.y = Mpq(7, 2)
    /\ last.o.algo = "Rational" /\ last.o.res = "pair"
    /\ last.o.quo = Mpz(2) /\ last.o.rem = Mpq(0, 1)
=============================================================================
